---------------------------- MODULE Spec2Model ----------------------------
(***************************************************************************)
(* Model of the research pipeline (src/main.py) and of the text transforms *)
(* of the web front end (src/app.py).                                      *)
(*                                                                         *)
(* Text is modelled as a sequence of one-character strings, so that the    *)
(* regular expressions, strip(), split() and slicing of the source are     *)
(* computed character by character.                                        *)
(*                                                                         *)
(* The specifications share the variables; each leaves the others' idle:   *)
(*   Spec / FairSpec  one form submission driving run_research_system      *)
(*   CiteSpec         compact_citations, applied to a text and then to its *)
(*                    own output                                           *)
(*   SnipSpec         the snippet clamp of the research-data expander      *)
(*   SumSpec          one call of summarize_to_two_sentences               *)
(*   CacheSpec        repeated calls of it behind st.cache_data(ttl=3600)  *)
(***************************************************************************)
EXTENDS Integers, Sequences, FiniteSets, TLC

VARIABLES
    \* ---- one form submission and the pipeline (app.py 79-94, main.py) ----
    pc,              \* position of the Streamlit script run
    rawQuery,        \* text_input value as typed
    stage,           \* pipeline stage
    trace,           \* stages entered so far, in order
    state,           \* ResearchState threaded through the graph
    attempt,         \* loop variable of the drafting retry loop
    sleeps,          \* arguments of the time.sleep calls made, in order
    outcomes,        \* per drafting attempt: "ok" or the exception raised
    firstOk,         \* content returned by the first successful attempt
    searchCalls,     \* calls of tavily_client.search
    draftCalls,      \* calls of chain.invoke
    summaryCalls,    \* calls of summarize_to_two_sentences by the page
    fault,           \* exception that left run_research_system ("" if none)
    searchReply,     \* what the Search Client did on its last call
    \* ---- compact_citations (app.py 108-141) ----
    cpc, text, last, counter, seen, out_parts, marks, pass, firstOut,
    \* ---- snippet clamp (app.py 164-169) ----
    spc, form, snippet,
    \* ---- summarizer and its cache (app.py 178-205) ----
    pool, now, cache, llmLog, served, budget

pipeVars == <<pc, rawQuery, stage, trace, state, attempt, sleeps, outcomes,
              firstOk, searchCalls, draftCalls, summaryCalls, fault, searchReply>>
citeVars == <<cpc, text, last, counter, seen, out_parts, marks, pass, firstOut>>
snipVars == <<spc, form, snippet>>
sumVars  == <<pool, now, cache, llmLog, served, budget>>
vars     == <<pipeVars, citeVars, snipVars, sumVars>>

-----------------------------------------------------------------------------
(* Bounds of the model *)

MaxQueryLen == 2
MaxResults  == 2
MaxPieces   == 3
MaxGap      == 2
MaxTail     == 2
MaxSumPieces == 3
MaxRequests == 3

-----------------------------------------------------------------------------
(* Character-level helpers: Python str methods *)

Min(a, b) == IF a < b THEN a ELSE b

\* str.isspace for one character (the whitespace the model's texts contain)
IsSpace(c) == c \in {" ", "\n"}

\* First index >= i of s that holds no whitespace (Len(s) + 1 if none)
SkipSpace(s, i) ==
    IF i > Len(s) THEN i
    ELSE CHOOSE k \in i..(Len(s) + 1) :
            /\ k = Len(s) + 1 \/ ~IsSpace(s[k])
            /\ \A j \in i..(k - 1) : IsSpace(s[j])

\* Last index of s that holds no whitespace (0 if none)
LastNonSpace(s) ==
    CHOOSE k \in 0..Len(s) :
        /\ k = 0 \/ ~IsSpace(s[k])
        /\ \A j \in (k + 1)..Len(s) : IsSpace(s[j])

lstrip(s) == SubSeq(s, SkipSpace(s, 1), Len(s))

rstrip(s) == SubSeq(s, 1, LastNonSpace(s))

strip(s) == rstrip(lstrip(s))

\* s[a..b] (1-based, inclusive), empty when out of range
Slice(s, a, b) == IF a > b \/ a < 1 \/ b > Len(s) THEN <<>> ELSE SubSeq(s, a, b)

\* First index >= i of s that holds a character of set cs (0 if none)
FindChar(s, i, cs) ==
    IF \E k \in i..Len(s) : s[k] \in cs
    THEN CHOOSE k \in i..Len(s) :
            s[k] \in cs /\ \A j \in i..(k - 1) : s[j] \notin cs
    ELSE 0

\* First index >= i of s that holds "]" (0 if none)
FindClose(s, i) == FindChar(s, i, {"]"})

\* s[:n]
Prefix(s, n) == SubSeq(s, 1, Min(n, Len(s)))

\* All sequences over S of length at most n
SeqsUpTo(S, n) == UNION {[1..k -> S] : k \in 0..n}

-----------------------------------------------------------------------------
(* The pipeline: src/main.py *)

MaxRetries   == 3
ContentLimit == 1000

FallbackAnswer == "Failed to draft answer due to API error."

\* Exception classes the clients and the stage code can raise; all of them
\* derive from Exception.
ExceptionKinds == {"ConnectionError", "KeyError", "TypeError", "AttributeError"}

\* "except Exception" of research_agent and answer_drafter_agent
ExceptProviderOnly(exc) == exc = "ConnectionError"
ExceptException(exc) == exc \in ExceptionKinds

\* One entry of search_results["results"] as the provider may return it:
\* keys names the keys the dict has; content is a str of the given length or
\* a value that cannot be sliced (None).
StrOfLen(n) == [isStr |-> TRUE, len |-> n]
NoneValue   == [isStr |-> FALSE, len |-> 0]

ResultShapes ==
    {[keys |-> {"url", "title", "content"}, url |-> u, title |-> t,
      content |-> StrOfLen(ContentLimit + 1)] : u \in {"", "http://a"}, t \in {"", "T"}}
    \cup
    {[keys |-> {"url", "title", "content"}, url |-> "http://a", title |-> "T",
      content |-> c] : c \in {StrOfLen(ContentLimit), NoneValue}}
    \cup
    {[keys |-> {"title", "content"}, url |-> "", title |-> "T",
      content |-> StrOfLen(0)]}

\* What tavily_client.search does: raise, return a dict without "results",
\* or return a dict with a list of results.
SearchReplies ==
    {[kind |-> "raise", results |-> <<>>], [kind |-> "noresults", results |-> <<>>]}
    \cup {[kind |-> "ok", results |-> rs] : rs \in SeqsUpTo(ResultShapes, MaxResults)}

\* What chain.invoke does: raise, return an object without .content, or
\* return a response with content.
DraftContents == {"Answer [Source: http://a]", "", FallbackAnswer}
DraftReplies ==
    {[exc |-> "ConnectionError", content |-> ""], [exc |-> "AttributeError", content |-> ""]}
    \cup {[exc |-> "", content |-> c] : c \in DraftContents}

AIMessage(t, arg)  == [role |-> "ai", text |-> t, arg |-> arg]
HumanMessage(q)    == [role |-> "human", text |-> "", arg |-> q]

\* result["content"][:1000]
SliceContentUnlimited(c) == c
SliceContent(c) == StrOfLen(Min(c.len, ContentLimit))

\* The exception the list comprehension of research_agent raises on one
\* result ("" if none)
ItemError(r) ==
    IF "url" \notin r.keys \/ "title" \notin r.keys \/ "content" \notin r.keys
    THEN "KeyError"
    ELSE IF ~r.content.isStr THEN "TypeError" ELSE ""

ResearchItem(r) ==
    [url |-> r.url, title |-> r.title, content |-> SliceContent(r.content),
     source |-> "web"]

\* The try body of research_agent: the exception it raises ("" if none)
ResearchError(reply) ==
    IF reply.kind = "raise" THEN "ConnectionError"
    ELSE IF reply.kind = "noresults" THEN "KeyError"
    ELSE IF \E i \in 1..Len(reply.results) : ItemError(reply.results[i]) # ""
         THEN ItemError(reply.results[
                  CHOOSE i \in 1..Len(reply.results) :
                      /\ ItemError(reply.results[i]) # ""
                      /\ \A j \in 1..(i - 1) : ItemError(reply.results[j]) = ""])
         ELSE ""

\* research_agent: [raised |-> exception leaving the function, state |-> returned state]
research_agent(st, reply) ==
    LET exc == ResearchError(reply)
        data == [i \in 1..Len(reply.results) |-> ResearchItem(reply.results[i])]
    IN  IF exc = ""
        THEN [raised |-> "",
              state |-> [query |-> st.query,
                         research_data |-> data,
                         drafted_answer |-> st.drafted_answer,
                         messages |-> Append(st.messages,
                                        AIMessage("Collected research items", <<ToString(Len(data))>>))]]
        ELSE IF ExceptException(exc)
        THEN [raised |-> "",
              state |-> [query |-> st.query,
                         research_data |-> <<>>,
                         drafted_answer |-> st.drafted_answer,
                         messages |-> Append(st.messages,
                                        AIMessage("Error in research", <<exc>>))]]
        ELSE [raised |-> exc, state |-> st]

\* time.sleep(2 ** attempt), made only when attempt < max_retries - 1
BackoffAlways(a) == <<2 ^ a>>
Backoff(a) == IF a < MaxRetries - 1 THEN <<2 ^ a>> ELSE <<>>

\* Whether the retry loop goes round again after a failure of attempt a
RetryOnce(a) == a < 1
RetryAfter(a) == a < MaxRetries - 1

\* drafted_answer returned by a successful attempt: response.content
Drafted(c) == c

-----------------------------------------------------------------------------
(* The form submission: src/app.py 79-94 *)

QueryChars == {" ", "q"}
Queries == SeqsUpTo(QueryChars, MaxQueryLen)

\* "if not query.strip()"
RejectsOnlyEmpty(q) == q = <<>>
Rejects(q) == strip(q) = <<>>

\* "drafted.strip()" on the model's answers
Blank(a) == a = ""

NoReply == [kind |-> "none", results |-> <<>>]

PipeRest ==
    /\ rawQuery = <<>> /\ stage = "None" /\ trace = <<>>
    /\ state = [query |-> <<>>, research_data |-> <<>>, drafted_answer |-> "",
                messages |-> <<>>]
    /\ attempt = 0 /\ sleeps = <<>> /\ outcomes = <<>> /\ firstOk = ""
    /\ searchCalls = 0 /\ draftCalls = 0 /\ summaryCalls = 0 /\ fault = ""
    /\ searchReply = NoReply

PipeIdle == pc = "off" /\ PipeRest

CiteIdle ==
    /\ cpc = "off" /\ text = <<>> /\ last = 0 /\ counter = 0 /\ seen = <<>>
    /\ out_parts = <<>> /\ marks = <<>> /\ pass = 0 /\ firstOut = <<>>

SnipIdle == spc = "off" /\ form = <<>> /\ snippet = <<>>

SumIdle ==
    /\ pool = {} /\ now = 0 /\ cache = {} /\ llmLog = <<>> /\ served = <<>>
    /\ budget = 0

PipeInit == pc = "form" /\ PipeRest /\ CiteIdle /\ SnipIdle /\ SumIdle

\* The script run: the form is shown; the user types a query and either
\* presses the button (run) or not.  A blank query is rejected with
\* st.stop(); otherwise run_research_system builds initial_state.
Submit(q, run) ==
    /\ pc = "form"
    /\ rawQuery' = q
    /\ IF ~run THEN
            /\ pc' = "norun"
            /\ UNCHANGED <<stage, trace, state>>
       ELSE IF Rejects(q) THEN
            /\ pc' = "stopped"
            /\ UNCHANGED <<stage, trace, state>>
       ELSE
            /\ pc' = "pipeline"
            /\ stage' = "Start"
            /\ trace' = <<"Start">>
            /\ state' = [query |-> strip(q), research_data |-> <<>>,
                         drafted_answer |-> "",
                         messages |-> <<HumanMessage(strip(q))>>]
    /\ UNCHANGED <<attempt, sleeps, outcomes, firstOk, searchCalls, draftCalls,
                   summaryCalls, fault, searchReply>>
    /\ UNCHANGED <<citeVars, snipVars, sumVars>>

\* app.invoke(initial_state): the graph enters its entry point, research_agent
Invoke ==
    /\ pc = "pipeline" /\ stage = "Start"
    /\ stage' = "Researching"
    /\ trace' = Append(trace, "Researching")
    /\ UNCHANGED <<pc, rawQuery, state, attempt, sleeps, outcomes, firstOk,
                   searchCalls, draftCalls, summaryCalls, fault, searchReply>>
    /\ UNCHANGED <<citeVars, snipVars, sumVars>>

\* The research_agent node, then the edge to answer_drafter_agent, whose
\* retry loop starts at attempt 0.
ResearchAgent(reply) ==
    /\ pc = "pipeline" /\ stage = "Researching"
    /\ searchCalls' = searchCalls + 1
    /\ searchReply' = reply
    /\ LET r == research_agent(state, reply)
       IN  IF r.raised # "" THEN
                /\ fault' = r.raised
                /\ pc' = "crashed"
                /\ stage' = "Raised"
                /\ UNCHANGED <<trace, state>>
           ELSE
                /\ state' = r.state
                /\ stage' = "Drafting"
                /\ trace' = Append(trace, "Drafting")
                /\ UNCHANGED <<pc, fault>>
    /\ attempt' = 0
    /\ UNCHANGED <<rawQuery, sleeps, outcomes, firstOk, draftCalls, summaryCalls>>
    /\ UNCHANGED <<citeVars, snipVars, sumVars>>

\* One iteration of "for attempt in range(max_retries)" of
\* answer_drafter_agent; a return ends the node and the graph (edge to END).
DraftAttempt(reply) ==
    /\ pc = "pipeline" /\ stage = "Drafting"
    /\ draftCalls' = draftCalls + 1
    /\ IF reply.exc = "" THEN
            /\ outcomes' = Append(outcomes, "ok")
            /\ firstOk' = reply.content
            /\ state' = [state EXCEPT
                    !.drafted_answer = Drafted(reply.content),
                    !.messages = Append(@, AIMessage("Drafted answer completed.", <<>>))]
            /\ stage' = "Done"
            /\ trace' = Append(trace, "Done")
            /\ UNCHANGED <<pc, attempt, sleeps, fault>>
       ELSE IF ~ExceptException(reply.exc) THEN
            /\ outcomes' = Append(outcomes, reply.exc)
            /\ fault' = reply.exc
            /\ pc' = "crashed"
            /\ stage' = "Raised"
            /\ UNCHANGED <<firstOk, state, trace, attempt, sleeps>>
       ELSE
            /\ outcomes' = Append(outcomes, reply.exc)
            /\ sleeps' = sleeps \o Backoff(attempt)
            /\ IF RetryAfter(attempt) THEN
                    /\ attempt' = attempt + 1
                    /\ UNCHANGED <<state, stage, trace>>
               ELSE
                    /\ state' = [state EXCEPT
                            !.drafted_answer = FallbackAnswer,
                            !.messages = Append(@, AIMessage("Error in drafting", <<reply.exc>>))]
                    /\ stage' = "Done"
                    /\ trace' = Append(trace, "Done")
                    /\ UNCHANGED attempt
            /\ UNCHANGED <<pc, firstOk, fault>>
    /\ UNCHANGED <<rawQuery, searchCalls, summaryCalls, searchReply>>
    /\ UNCHANGED <<citeVars, snipVars, sumVars>>

\* The rest of the script run: the page is rendered from the result, and the
\* conclusion calls summarize_to_two_sentences when the answer is not blank.
Render ==
    /\ pc = "pipeline" /\ stage = "Done"
    /\ pc' = "rendered"
    /\ summaryCalls' = IF Blank(state.drafted_answer) THEN summaryCalls
                       ELSE summaryCalls + 1
    /\ UNCHANGED <<rawQuery, stage, trace, state, attempt, sleeps, outcomes,
                   firstOk, searchCalls, draftCalls, fault, searchReply>>
    /\ UNCHANGED <<citeVars, snipVars, sumVars>>

PipeNext ==
    \/ \E q \in Queries, run \in BOOLEAN : Submit(q, run)
    \/ Invoke
    \/ \E reply \in SearchReplies : ResearchAgent(reply)
    \/ \E reply \in DraftReplies : DraftAttempt(reply)
    \/ Render

Spec == PipeInit /\ [][PipeNext]_vars

\* Execution is synchronous and single-threaded: every client call returns
\* or raises and every sleep ends, so an enabled step is eventually taken.
FairSpec == PipeInit /\ [][PipeNext]_vars /\ WF_vars(PipeNext)

-----------------------------------------------------------------------------
(* compact_citations: src/app.py 108-141 *)

\* re.IGNORECASE on the letters of the keyword
Lower(c) ==
    CASE c = "S" -> "s" [] c = "O" -> "o" [] c = "U" -> "u" [] c = "R" -> "r"
      [] c = "C" -> "c" [] c = "E" -> "e" [] OTHER -> c

LowerSeq(s) == [i \in 1..Len(s) |-> Lower(s[i])]

NoMatch == [ok |-> FALSE, start |-> 0, gstart |-> 0, end |-> 0]

\* The pattern \[(?:Source|Sources?)\s*:\s*([^\]]+)\] tried at index i with
\* a keyword of klen letters: start and end of the match, start of group 1
\* (which ends right before the closing bracket).
MatchWith(s, i, klen) ==
    LET kw    == IF klen = 6 THEN <<"s", "o", "u", "r", "c", "e">> ELSE <<"s", "o", "u", "r", "c", "e", "s">>
        colon == SkipSpace(s, i + 1 + klen)
        close == FindClose(s, colon + 1)
        ws    == SkipSpace(s, colon + 1)
    IN  IF /\ i <= Len(s) /\ s[i] = "["
           /\ LowerSeq(Slice(s, i + 1, i + klen)) = kw
           /\ colon <= Len(s) /\ s[colon] = ":"
           /\ close > colon + 1
        THEN [ok |-> TRUE, start |-> i, end |-> close,
              gstart |-> IF ws < close THEN ws ELSE close - 1]
        ELSE NoMatch

MatchAt(s, i) ==
    IF MatchWith(s, i, 6).ok THEN MatchWith(s, i, 6) ELSE MatchWith(s, i, 7)

\* pattern.finditer: the leftmost match starting at index i or later
SearchFrom(s, i) ==
    LET starts == {k \in i..Len(s) : s[k] = "[" /\ MatchAt(s, k).ok}
    IN  IF starts = {} THEN NoMatch
        ELSE MatchAt(s, CHOOSE k \in starts : \A j \in starts : k <= j)

\* re.split(r"[;,]", raw)
RECURSIVE SplitOn(_, _)
SplitOn(s, seps) ==
    LET k == FindChar(s, 1, seps)
    IN  IF k = 0 THEN <<s>>
        ELSE <<Slice(s, 1, k - 1)>> \o SplitOn(Slice(s, k + 1, Len(s)), seps)

\* [u.strip() for u in parts if u.strip()]
StripNonEmpty(parts) ==
    LET RECURSIVE keep(_)
        keep(i) ==
            IF i > Len(parts) THEN <<>>
            ELSE IF strip(parts[i]) = <<>> THEN keep(i + 1)
            ELSE <<strip(parts[i])>> \o keep(i + 1)
    IN  keep(1)

\* urls = [u.strip() for u in re.split(r"[;,]", raw) if u.strip()]
UrlsSemicolonOnly(raw) == StripNonEmpty(SplitOn(raw, {";"}))
Urls(raw) == StripNonEmpty(SplitOn(raw, {";", ","}))

\* key = tuple(urls)
CitationKey(urls) == urls

\* sep.join(parts)
RECURSIVE Join(_, _)
Join(parts, sep) ==
    LET n == Len(parts)
        h == n \div 2
    IN  IF n = 0 THEN <<>>
        ELSE IF n = 1 THEN parts[1]
        ELSE Join(SubSeq(parts, 1, h), sep) \o sep \o Join(SubSeq(parts, h + 1, n), sep)

\* "".join(parts)
Concat(parts) == Join(parts, <<>>)

\* s.replace('"', '&quot;')
EscapeQuotes(s) ==
    Concat([i \in 1..Len(s) |->
               IF s[i] = "\"" THEN <<"&", "q", "u", "o", "t", ";">> ELSE <<s[i]>>])

\* str(n) for n >= 0
RECURSIVE Decimal(_)
Decimal(n) ==
    LET d == <<"0", "1", "2", "3", "4", "5", "6", "7", "8", "9">>
    IN  IF n < 10 THEN <<d[n + 1]>> ELSE Decimal(n \div 10) \o <<d[(n % 10) + 1]>>

\* The fixed parts of the anchor f-string (line 135)
AnchorHref   == <<"<", "a", " ", "h", "r", "e", "f", "=", "\"">>
AnchorTarget == <<"\"", " ", "t", "a", "r", "g", "e", "t", "=", "\"", "_", "b", "l", "a", "n", "k", "\"", " ", "t", "i", "t", "l", "e", "=", "\"">>
AnchorClose  == <<"\"", ">">>
AnchorEnd    == <<"<", "/", "a", ">">>

\* The anchor of one marker (lines 130-135)
Anchor(urls, idx) ==
    LET first == IF urls # <<>> THEN urls[1] ELSE <<"#">>
        title == IF urls # <<>> THEN Join(urls, <<"\n">>) ELSE <<"N", "o", " ", "l", "i", "n", "k", "s", " ", "p", "r", "o", "v", "i", "d", "e", "d">>
    IN  AnchorHref \o EscapeQuotes(first) \o AnchorTarget \o EscapeQuotes(title) \o AnchorClose
          \o <<"[">> \o Decimal(idx) \o <<"]">> \o AnchorEnd

\* Texts the compactor is run on: up to MaxPieces pieces, each a marker in one
\* of its spellings, a piece of a marker, or plain text.
CitePieces ==
    {<<"[", "S", "o", "u", "r", "c", "e", ":", " ", "a", ";", " ", "b", "]">>,
     <<"[", "s", "O", "U", "R", "C", "E", "s", " ", ":", " ", "a", ",", " ", "b", "]">>,
     <<"[", "S", "o", "u", "r", "c", "e", ":", " ", "b", ";", "a", "]">>,
     <<"[", "S", "o", "u", "r", "c", "e", ":", " ", "]">>,
     <<"[", "S", "o", "u", "r", "c", "e", ":", "]">>,
     <<"[", "S", "o", "u", "r", "c", "e", ":", " ">>,
     <<"x", " ">>,
     <<"[", "S", "r", "c", ":", " ", "a", "]">>,
     <<"[", "S", "o", "u", "r", "c", "e", ":", " ", "\"", "a", "\"", "]">>,
     <<"[", "S", "o", "u", "r", "c", "e", ":", " ", ";", ",", "]">>}

RECURSIVE TextsOf(_, _)
TextsOf(pieces, n) ==
    IF n = 0 THEN {<<>>}
    ELSE TextsOf(pieces, n - 1)
           \cup {t \o p : t \in TextsOf(pieces, n - 1), p \in pieces}

CiteTexts == TextsOf(CitePieces, MaxPieces)

CiteInit ==
    /\ PipeIdle /\ SnipIdle /\ SumIdle
    /\ cpc = "scan" /\ text \in CiteTexts /\ pass = 1
    /\ last = 0 /\ counter = 0 /\ seen = <<>> /\ out_parts = <<>>
    /\ marks = <<>> /\ firstOut = <<>>

\* idx of a key: seen[key] if present, else the incremented counter (123-128)
IndexOf(key) == IF key \in DOMAIN seen THEN seen[key] ELSE counter + 1

\* One iteration of "for m in pattern.finditer(text)" (lines 115-138)
CompactMatch ==
    /\ cpc = "scan"
    /\ LET m == SearchFrom(text, last + 1) IN
       /\ m.ok
       /\ LET raw  == Slice(text, m.gstart, m.end - 1)
              urls == Urls(raw)
              key  == CitationKey(urls)
              idx  == IndexOf(key)
          IN  /\ counter' = IF key \in DOMAIN seen THEN counter ELSE counter + 1
              /\ seen' = [k \in DOMAIN seen \cup {key} |->
                              IF k = key THEN idx ELSE seen[k]]
              /\ out_parts' = out_parts \o
                    <<Slice(text, last + 1, m.start - 1), Anchor(urls, idx)>>
              /\ marks' = Append(marks, [raw |-> raw, urls |-> urls, idx |-> idx])
              /\ last' = m.end
    /\ UNCHANGED <<cpc, text, pass, firstOut>>
    /\ UNCHANGED <<pipeVars, snipVars, sumVars>>

\* No further match: the tail is appended and the parts are joined (140-141)
CompactFinish ==
    /\ cpc = "scan"
    /\ ~SearchFrom(text, last + 1).ok
    /\ out_parts' = Append(out_parts, Slice(text, last + 1, Len(text)))
    /\ cpc' = "done"
    /\ firstOut' = IF pass = 1 THEN Concat(out_parts') ELSE firstOut
    /\ UNCHANGED <<text, last, counter, seen, marks, pass>>
    /\ UNCHANGED <<pipeVars, snipVars, sumVars>>

\* compact_citations called on its own output
Recompact ==
    /\ cpc = "done" /\ pass = 1
    /\ text' = Concat(out_parts)
    /\ pass' = 2 /\ cpc' = "scan"
    /\ last' = 0 /\ counter' = 0 /\ seen' = <<>> /\ out_parts' = <<>>
    /\ marks' = <<>>
    /\ UNCHANGED firstOut
    /\ UNCHANGED <<pipeVars, snipVars, sumVars>>

CiteNext == CompactMatch \/ CompactFinish \/ Recompact

CiteSpec == CiteInit /\ [][CiteNext]_vars

-----------------------------------------------------------------------------
(* The snippet of a research item: src/app.py 164-169 *)

SNIPPET_MAX_CHARS == 450

\* The one character U+2026 appended to a clamped snippet
Ellipsis == "U+2026"

\* c repeated n times
Rep(c, n) == [i \in 1..n |-> c]

\* s.split(): the maximal runs of non-whitespace characters
RECURSIVE split(_)
split(s) ==
    LET t == lstrip(s)
        sp == FindChar(t, 1, {" ", "\n"})
        e == IF sp = 0 THEN Len(t) ELSE sp - 1
    IN  IF t = <<>> THEN <<>>
        ELSE <<Slice(t, 1, e)>> \o split(Slice(t, e + 1, Len(t)))

\* " ".join(s.split())
Collapsed(s) == Join(split(s), <<" ">>)

\* if len(snippet) > SNIPPET_MAX_CHARS:
\*     snippet = snippet[:SNIPPET_MAX_CHARS].rstrip() + ellipsis
ClampInclusive(s) ==
    IF Len(s) >= SNIPPET_MAX_CHARS
    THEN rstrip(Prefix(s, SNIPPET_MAX_CHARS)) \o <<Ellipsis>>
    ELSE s
Clamp(s) ==
    IF Len(s) > SNIPPET_MAX_CHARS
    THEN rstrip(Prefix(s, SNIPPET_MAX_CHARS)) \o <<Ellipsis>>
    ELSE s

\* Plain text returned by strip_markdown(content): a word, a gap of
\* whitespace, a second word, and possibly a leading blank.
SnipInputs ==
    {Rep(" ", lead) \o Rep("x", n1) \o Rep(gapChar, gap) \o Rep("y", n2) :
        lead \in {0, 1},
        n1 \in {0, 1} \cup ((SNIPPET_MAX_CHARS - 2)..(SNIPPET_MAX_CHARS + 1)),
        gapChar \in {" ", "\n"},
        gap \in 0..MaxGap,
        n2 \in (0..MaxTail) \cup {50}}

SnipInit ==
    /\ PipeIdle /\ CiteIdle /\ SumIdle
    /\ spc = "stripped" /\ snippet \in SnipInputs /\ form = <<>>

\* snippet = " ".join(snippet.split())   (line 167)
Collapse ==
    /\ spc = "stripped"
    /\ snippet' = Collapsed(snippet)
    /\ form' = snippet'
    /\ spc' = "collapsed"
    /\ UNCHANGED <<pipeVars, citeVars, sumVars>>

\* lines 168-169, after which the snippet is displayed
ClampSnippet ==
    /\ spc = "collapsed"
    /\ snippet' = Clamp(snippet)
    /\ spc' = "shown"
    /\ UNCHANGED form
    /\ UNCHANGED <<pipeVars, citeVars, sumVars>>

SnipNext == Collapse \/ ClampSnippet

SnipSpec == SnipInit /\ [][SnipNext]_vars

-----------------------------------------------------------------------------
(* summarize_to_two_sentences and its cache: src/app.py 178-205 *)

SUMMARY_MAX_CHARS == 320
TTL == 3600

\* re.sub(pattern, "", s): s from index i on with every match removed
RECURSIVE RemoveMarkersFrom(_, _)
RemoveMarkersFrom(s, i) ==
    LET m == SearchFrom(s, i)
    IN  IF ~m.ok THEN Slice(s, i, Len(s))
        ELSE Slice(s, i, m.start - 1) \o RemoveMarkersFrom(s, m.end + 1)

RemoveMarkers(s) == RemoveMarkersFrom(s, 1)

\* re.split(r"(?<=[.!?])\s+", s)
RECURSIVE SentenceSplit(_)
SentenceSplit(s) ==
    LET cuts == {i \in 2..Len(s) : IsSpace(s[i]) /\ s[i - 1] \in {".", "!", "?"}}
        cut  == CHOOSE i \in cuts : \A j \in cuts : i <= j
    IN  IF cuts = {} THEN <<s>>
        ELSE <<Slice(s, 1, cut - 1)>>
               \o SentenceSplit(Slice(s, SkipSpace(s, cut), Len(s)))

\* short = " ".join(parts[:2]).strip()
\* if len(short) > 320: short = short[:320].rstrip() + ellipsis
FirstTwo(s) ==
    LET parts == SentenceSplit(s)
        short == strip(Join(SubSeq(parts, 1, Min(2, Len(parts))), <<" ">>))
    IN  IF Len(short) > SUMMARY_MAX_CHARS
        THEN rstrip(Prefix(short, SUMMARY_MAX_CHARS)) \o <<Ellipsis>>
        ELSE short

\* The except branch (lines 195-201)
Heuristic(textArg) == FirstTwo(Collapsed(RemoveMarkers(textArg)))

\* What llm.invoke does: raise, or return a response with str content.
LlmOutputs ==
    {<<" ", "O", "n", "e", ".", " ", "T", "w", "o", "!", " ", "T", "h", "r", "e", "e", "?", " ">>,
     Rep("x", 321)}
LlmReplies ==
    {[exc |-> "ConnectionError", content |-> <<>>]}
    \cup {[exc |-> "", content |-> c] : c \in LlmOutputs}

\* The body of summarize_to_two_sentences:
\* [raised |-> exception leaving it, value |-> returned str, fallback |-> except branch taken]
summarize_to_two_sentences(textArg, reply) ==
    IF reply.exc = ""
    THEN LET out   == strip(reply.content)
             short == FirstTwo(out)
         IN  [raised |-> "", fallback |-> FALSE,
              value |-> IF short # <<>> THEN short ELSE out]
    ELSE IF ExceptException(reply.exc)
    THEN [raised |-> "", fallback |-> TRUE, value |-> Heuristic(textArg)]
    ELSE [raised |-> reply.exc, fallback |-> FALSE, value |-> <<>>]

\* st.cache_data(ttl=3600): an entry is served while it is younger than ttl
FreshForever(e, t) == TRUE
Fresh(e, t) == t < e.stored + TTL

Cached(textArg, t) == {e \in cache : e.key = textArg /\ Fresh(e, t)}

\* Drafted answers the summarizer is asked about
SumPieces ==
    {<<"A", ".", " ">>,
     <<"[", "S", "o", "u", "r", "c", "e", ":", " ", "a", ".", " ", "b", "]", " ">>,
     <<"[", "s", "O", "U", "R", "C", "E", "s">>,
     <<" ", ":", " ", "y", "]">>,
     Rep("x", 159) \o <<".", " ">>,
     Rep("x", 158) \o <<"!", "\n">>,
     Rep("x", 318) \o <<".", " ">>}

SumTexts == {t \in TextsOf(SumPieces, MaxSumPieces) : strip(t) # <<>>}

CacheTexts ==
    {<<"A", ".", " ", "[", "S", "o", "u", "r", "c", "e", ":", " ", "a", "]">>,
     <<"B", "!">>}

\* One summary of one drafted answer
SumInit ==
    /\ PipeIdle /\ CiteIdle /\ SnipIdle
    /\ \E t \in SumTexts : pool = {t}
    /\ budget = 1
    /\ now = 0 /\ cache = {} /\ llmLog = <<>> /\ served = <<>>

\* A sequence of page runs over a few drafted answers
CacheInit ==
    /\ PipeIdle /\ CiteIdle /\ SnipIdle
    /\ pool = CacheTexts
    /\ budget = MaxRequests
    /\ now = 0 /\ cache = {} /\ llmLog = <<>> /\ served = <<>>

Delays == {0, 1, TTL - 1}

\* A page run, d seconds after the previous one, reaches line 205 with the
\* drafted answer textArg: the cached value is served if there is a fresh
\* entry; otherwise the function body runs (calling the model, which does
\* reply) and its return value is stored.
Request(textArg, d, reply) ==
    /\ budget > 0
    /\ budget' = budget - 1
    /\ now' = now + d
    /\ LET hits == Cached(textArg, now')
           r    == summarize_to_two_sentences(textArg, reply)
       IN  IF hits # {} THEN
                /\ served' = Append(served,
                      [text |-> textArg, at |-> now', called |-> FALSE,
                       fallback |-> FALSE, raised |-> "",
                       value |-> (CHOOSE e \in hits : TRUE).value])
                /\ UNCHANGED <<cache, llmLog>>
           ELSE
                /\ llmLog' = Append(llmLog, [text |-> textArg, at |-> now'])
                /\ served' = Append(served,
                      [text |-> textArg, at |-> now', called |-> TRUE,
                       fallback |-> r.fallback, raised |-> r.raised,
                       value |-> r.value])
                /\ cache' = IF r.raised # "" THEN cache
                            ELSE {e \in cache : e.key # textArg}
                                   \cup {[key |-> textArg, value |-> r.value,
                                          stored |-> now']}
    /\ UNCHANGED pool
    /\ UNCHANGED <<pipeVars, citeVars, snipVars>>

SumNext == \E t \in pool, d \in Delays, reply \in LlmReplies : Request(t, d, reply)

SumSpec == SumInit /\ [][SumNext]_vars

CacheSpec == CacheInit /\ [][SumNext]_vars

-----------------------------------------------------------------------------
(* Properties of the pipeline and of the form submission *)

Sum(seq) ==
    LET RECURSIVE add(_)
        add(k) == IF k = 0 THEN 0 ELSE seq[k] + add(k - 1)
    IN  add(Len(seq))

Raised(o) == o # "ok"
AllRaised == Len(outcomes) = MaxRetries /\ \A i \in 1..Len(outcomes) : Raised(outcomes[i])
SomeOk == \E i \in 1..Len(outcomes) : outcomes[i] = "ok"

StageSteps ==
    {<<"None", "Start">>, <<"Start", "Researching">>,
     <<"Researching", "Drafting">>, <<"Drafting", "Done">>}

\* C1: whatever the Search Client and the Drafting Client do, a run of
\* run_research_system moves Start -> Researching -> Drafting -> Done, enters
\* each stage exactly once, lets no exception leave the pipeline, and reaches
\* Done; Drafting is entered also after a failed or empty research stage.
C1_StageOrder ==
    /\ [][stage' # stage => <<stage, stage'>> \in StageSteps]_vars
    /\ [](fault = "" /\ stage # "Raised")
    /\ [](stage = "Done" => trace = <<"Start", "Researching", "Drafting", "Done">>)
    /\ [](stage = "Start" => <>(stage = "Done"))

C1_Witness ==
    /\ stage = "Done"
    /\ searchReply.kind = "raise"
    /\ state.research_data = <<>>
    /\ AllRaised

\* C2 as stated: at most 3 invocations, none after a success; at Done the
\* answer is the first successful content if an attempt succeeded, and is the
\* fallback string if and only if all 3 attempts raised.
C2_Original ==
    /\ draftCalls <= 3
    /\ draftCalls = Len(outcomes)
    /\ \A i \in 1..(Len(outcomes) - 1) : Raised(outcomes[i])
    /\ stage = "Done" =>
          /\ SomeOk => state.drafted_answer = firstOk
          /\ state.drafted_answer = FallbackAnswer <=> AllRaised

\* C2 amended: as C2, except that the fallback string is the answer when all
\* 3 attempts raised, and otherwise only when the successful attempt itself
\* returned that string.
C2_Amended ==
    /\ draftCalls <= 3
    /\ draftCalls = Len(outcomes)
    /\ \A i \in 1..(Len(outcomes) - 1) : Raised(outcomes[i])
    /\ stage = "Done" =>
          /\ SomeOk \/ AllRaised
          /\ SomeOk => state.drafted_answer = firstOk
          /\ AllRaised => state.drafted_answer = FallbackAnswer
          /\ state.drafted_answer = FallbackAnswer =>
                AllRaised \/ (SomeOk /\ firstOk = FallbackAnswer)

C2_Witness ==
    /\ stage = "Done"
    /\ outcomes = <<"ConnectionError", "AttributeError", "ConnectionError">>
    /\ state.drafted_answer = FallbackAnswer

\* C3: the retry loop sleeps 2^attempt seconds after a failed attempt 0 or 1
\* only (1 s, then 2 s), never after the third failure or after a success;
\* the total delay is 0, 1 or 3 s; two failures and then a success return the
\* successful content after 1 s + 2 s.
C3_Backoff ==
    /\ sleeps \in {<<>>, <<1>>, <<1, 2>>}
    /\ Len(sleeps) = Min(Cardinality({i \in 1..Len(outcomes) : Raised(outcomes[i])}), 2)
    /\ \A i \in 1..Len(sleeps) : sleeps[i] = 2 ^ (i - 1)
    /\ Sum(sleeps) \in {0, 1, 3}
    /\ (stage = "Done" /\ Len(outcomes) = 3 /\ outcomes[3] = "ok") =>
          (state.drafted_answer = firstOk /\ Sum(sleeps) = 1 + 2)

C3_Witness ==
    /\ stage = "Done"
    /\ outcomes = <<"ConnectionError", "ConnectionError", "ok">>
    /\ state.drafted_answer = "Answer [Source: http://a]"
    /\ sleeps = <<1, 2>>

ResearchEnded == stage \in {"Drafting", "Done"}

\* C4 as stated: after the research stage every item of research_data has a
\* non-empty url and title and at most 1000 characters of content.
C4_Original ==
    ResearchEnded =>
        \A i \in 1..Len(state.research_data) :
            /\ state.research_data[i].url # ""
            /\ state.research_data[i].title # ""
            /\ state.research_data[i].content.len <= 1000

\* C4 amended: after the research stage research_data is empty or holds one
\* item per result returned, in order, each with at most 1000 characters of
\* content and with the url and title exactly as the Search Client returned
\* them (empty when the client returned them empty).
C4_Amended ==
    ResearchEnded =>
        /\ Len(state.research_data) \in {0, Len(searchReply.results)}
        /\ \A i \in 1..Len(state.research_data) :
              /\ state.research_data[i].url = searchReply.results[i].url
              /\ state.research_data[i].title = searchReply.results[i].title
              /\ state.research_data[i].content.isStr
              /\ state.research_data[i].content.len <= 1000
              /\ state.research_data[i].content.len <= searchReply.results[i].content.len

C4_Witness ==
    /\ stage = "Done"
    /\ Len(state.research_data) = 2
    /\ state.research_data[1].url = ""
    /\ state.research_data[2].title = ""
    /\ searchReply.results[1].content.len = 1001
    /\ state.research_data[1].content.len = 1000

WhitespaceOnly(q) == \A i \in 1..Len(q) : q[i] \in {" ", "\n", "\t"}

\* C5: a submission whose query is empty or only whitespace calls neither the
\* Search Client nor the Drafting Client nor the summarizer, and the pipeline
\* only ever runs with a non-empty query without leading or trailing
\* whitespace.
C5_EmptyQuery ==
    /\ (pc # "form" /\ WhitespaceOnly(rawQuery)) =>
          /\ searchCalls = 0 /\ draftCalls = 0 /\ summaryCalls = 0
          /\ stage = "None"
    /\ stage # "None" =>
          /\ state.query # <<>>
          /\ ~WhitespaceOnly(<<state.query[1]>>)
          /\ ~WhitespaceOnly(<<state.query[Len(state.query)]>>)

C5_Witness ==
    /\ pc = "stopped"
    /\ rawQuery = <<" ", " ">>
    /\ searchCalls = 0 /\ draftCalls = 0

-----------------------------------------------------------------------------
(* Properties of compact_citations *)

\* raw with every "," written as ";"
SameSeparator(raw) == [i \in 1..Len(raw) |-> IF raw[i] = "," THEN ";" ELSE raw[i]]

\* C6: within one pass the first marker gets index 1, a URL tuple not seen
\* before gets the next integer and a tuple seen before reuses its index, so
\* equal tuples share an index whether written with ";" or ",", different
\* tuples get different indices, and the indices in use are exactly 1..k.
C6_Indices ==
    LET n == Len(marks)
        tuplesBefore(i) == {marks[j].urls : j \in 1..(i - 1)}
    IN  /\ n >= 1 => marks[1].idx = 1
        /\ \A i \in 1..n :
              IF marks[i].urls \in tuplesBefore(i)
              THEN \E j \in 1..(i - 1) :
                      marks[j].urls = marks[i].urls /\ marks[j].idx = marks[i].idx
              ELSE marks[i].idx = Cardinality(tuplesBefore(i)) + 1
        /\ \A i, j \in 1..n :
              (marks[i].urls = marks[j].urls) <=> (marks[i].idx = marks[j].idx)
        /\ \A i, j \in 1..n :
              SameSeparator(marks[i].raw) = SameSeparator(marks[j].raw)
                  => marks[i].idx = marks[j].idx
        /\ {marks[i].idx : i \in 1..n} = 1..Cardinality({marks[i].urls : i \in 1..n})

C6_Witness ==
    /\ Len(marks) = 3
    /\ \E i \in 1..Len(marks[1].raw) : marks[1].raw[i] = ";"
    /\ \E i \in 1..Len(marks[2].raw) : marks[2].raw[i] = ","
    /\ marks[1].urls = marks[2].urls
    /\ marks[1].idx = 1 /\ marks[2].idx = 1 /\ marks[3].idx = 2

\* C7: the output of one pass holds no marker, and a second pass over it
\* returns it unchanged.
C7_Idempotent ==
    /\ (cpc = "done" /\ pass = 1) => ~SearchFrom(Concat(out_parts), 1).ok
    /\ (cpc = "done" /\ pass = 2) => Concat(out_parts) = firstOut

-----------------------------------------------------------------------------
(* Properties of the snippet clamp *)

\* C8 as stated: a collapsed form longer than 450 characters is displayed as
\* exactly its first 450 characters and one ellipsis; a form of at most 450
\* characters is displayed unchanged.
C8_Original ==
    spc = "shown" =>
        IF Len(form) > 450
        THEN snippet = SubSeq(form, 1, 450) \o <<Ellipsis>>
        ELSE snippet = form

\* C8 amended: a collapsed form longer than 450 characters is displayed as
\* its first 450 characters and one ellipsis, or as its first 449 characters
\* and one ellipsis when its 450th character is a blank; a form of at most
\* 450 characters is displayed unchanged.
C8_Amended ==
    spc = "shown" =>
        IF Len(form) > 450
        THEN IF IsSpace(form[450])
             THEN snippet = SubSeq(form, 1, 449) \o <<Ellipsis>>
             ELSE snippet = SubSeq(form, 1, 450) \o <<Ellipsis>>
        ELSE snippet = form

C8_Witness ==
    /\ spc = "shown"
    /\ Len(form) = 500
    /\ form[450] = " "
    /\ Len(snippet) = 450
    /\ snippet[450] = Ellipsis

-----------------------------------------------------------------------------
(* Properties of the summarizer *)

HasMarker(s) == SearchFrom(s, 1).ok

\* C9: when the model call raises, summarize_to_two_sentences returns (it
\* does not raise) the heuristic summary, and for a drafted text that holds
\* a marker the summary holds no marker, at most two sentences, and at most
\* 320 characters plus an ellipsis.
C9_Fallback ==
    \A i \in 1..Len(served) :
        served[i].called =>
            /\ served[i].raised = ""
            /\ (served[i].fallback /\ HasMarker(served[i].text)) =>
                  /\ ~HasMarker(served[i].value)
                  /\ Len(SentenceSplit(served[i].value)) <= 2
                  /\ Len(served[i].value) <= 320 + 1
                  /\ Len(served[i].value) = 320 + 1 =>
                        served[i].value[320 + 1] = Ellipsis

\* C10: the model is invoked at most once per drafted text within an hour:
\* a request for a text is served from the cache, with the value stored
\* (also a heuristic one), exactly when the model was invoked for that text
\* less than 3600 s before; otherwise the model is invoked again.
C10_Cache ==
    /\ \A i, j \in 1..Len(llmLog) :
          (i < j /\ llmLog[i].text = llmLog[j].text)
              => llmLog[j].at - llmLog[i].at >= 3600
    /\ Len(llmLog) = Cardinality({i \in 1..Len(served) : served[i].called})
    /\ \A j \in 1..Len(served) :
          LET recent == {i \in 1..(j - 1) :
                            /\ served[i].text = served[j].text
                            /\ served[i].called
                            /\ served[j].at - served[i].at < 3600}
          IN  /\ served[j].called <=> recent = {}
              /\ \A i \in recent : served[j].value = served[i].value

C10_Witness ==
    /\ Len(served) = 3
    /\ served[1].text = served[2].text /\ served[2].text = served[3].text
    /\ served[1].called /\ served[1].fallback
    /\ served[2].at = 3599 /\ ~served[2].called
    /\ served[2].value = served[1].value
    /\ served[3].at = 3600 /\ served[3].called
    /\ Len(llmLog) = 2

====
